---- MODULE Spec2Model ----
(***************************************************************************)
(* Model of fin_track: the category registry (load_categories), the        *)
(* SmartCategorizer (keyword index, fuzzy matcher, semantic fallback,      *)
(* batch orchestration) and the main pipeline that drives them.            *)
(*                                                                         *)
(* Strings that the code inspects character by character (keywords,        *)
(* descriptions, search texts) are sequences of one-character strings.     *)
(* Category names and type tags are atomic strings.                        *)
(* Scores: fuzzy scores are exact fractions [num, den] meaning             *)
(* 100*num/den; cosine scores and the confidence threshold are integers    *)
(* in hundredths (0.25 is 25).                                             *)
(***************************************************************************)
EXTENDS Integers, Sequences, FiniteSets, TLC

\* ------------------------------------------------------------------ bounds
MaxBatch == 2
MaxRows == 2

\* --------------------------------------------------------------- sentinels
\* Python's None in a result slot or a return value.
None == "<None>"
\* A null (NaN) cell of a table.
Null == <<"<null>">>

UNKNOWN == "Unknown"

\* --------------------------------------------------------- string helpers
Alphabet == <<" ", "a", "b", "c", "m", "n", "o", "t", "u", "=", "-", "1", "2", "A", "B", "C">>

CharCode(c) == CHOOSE i \in 1..Len(Alphabet) : Alphabet[i] = c

LowerChar(c) == CASE c = "A" -> "a" [] c = "B" -> "b" [] c = "C" -> "c" [] OTHER -> c

\* str.lower()
Lower(s) == [i \in 1..Len(s) |-> LowerChar(s[i])]

RECURSIVE LStrip(_)
LStrip(s) == IF s # <<>> /\ Head(s) = " " THEN LStrip(Tail(s)) ELSE s

RECURSIVE RStrip(_)
RStrip(s) == IF s # <<>> /\ s[Len(s)] = " " THEN RStrip(SubSeq(s, 1, Len(s) - 1)) ELSE s

\* str.strip()
Strip(s) == RStrip(LStrip(s))

Max2(a, b) == IF a >= b THEN a ELSE b

\* ------------------------------------------------- rapidfuzz.fuzz scoring
\* Longest common subsequence length: fuzz.ratio is the normalised Indel
\* similarity 100 * 2*LCS / (len1 + len2).
RECURSIVE LCS(_, _)
LCS(s, t) ==
    IF s = <<>> \/ t = <<>> THEN 0
    ELSE IF Head(s) = Head(t) THEN 1 + LCS(Tail(s), Tail(t))
    ELSE Max2(LCS(Tail(s), t), LCS(s, Tail(t)))

ZeroScore == [num |-> 0, den |-> 1]
FullScore == [num |-> 1, den |-> 1]

Ratio(s, t) ==
    IF Len(s) + Len(t) = 0 THEN FullScore
    ELSE [num |-> 2 * LCS(s, t), den |-> Len(s) + Len(t)]

\* a > b and a >= b on exact fractions
ScoreGT(a, b) == a.num * b.den > b.num * a.den
ScoreGE(a, b) == a.num * b.den >= b.num * a.den

\* score >= threshold, threshold given in percent
ReachesCutoff(a, thr) == 100 * a.num >= thr * a.den

\* The windows of the longer string that partial_ratio aligns the shorter
\* one against: proper prefixes shorter than it, every full-length window,
\* and the suffixes shorter than it.
Windows(len1, longer) ==
    LET len2 == Len(longer) IN
      [i \in 1..(len1 - 1) |-> SubSeq(longer, 1, i)]
      \o [i \in 1..(len2 - len1 + 1) |-> SubSeq(longer, i, i + len1 - 1)]
      \o [i \in 1..(len1 - 1) |-> SubSeq(longer, len2 - len1 + 1 + i, len2)]

RECURSIVE BestWindow(_, _, _)
BestWindow(shorter, ws, best) ==
    IF ws = <<>> THEN best
    ELSE LET r == Ratio(shorter, Head(ws)) IN
         BestWindow(shorter, Tail(ws), IF ScoreGT(r, best) THEN r ELSE best)

\* _partial_ratio_impl, assuming Len(shorter) <= Len(longer)
PartialRatioImpl(shorter, longer) ==
    IF shorter = <<>> THEN ZeroScore
    ELSE BestWindow(shorter, Windows(Len(shorter), longer), ZeroScore)

\* fuzz.partial_ratio(s1, s2)
PartialRatio(s1, s2) ==
    IF s1 = <<>> /\ s2 = <<>> THEN FullScore
    ELSE IF Len(s1) < Len(s2) THEN PartialRatioImpl(s1, s2)
    ELSE IF Len(s2) < Len(s1) THEN PartialRatioImpl(s2, s1)
    ELSE LET r1 == PartialRatioImpl(s1, s2)
             r2 == PartialRatioImpl(s2, s1)
         IN IF ScoreGT(r2, r1) THEN r2 ELSE r1

\* ------------------------------------------------------ embedding model
\* SentenceTransformer.encode is a deterministic function of the text and
\* of the loaded model; vectors all have norm 5 so that the cosine is the
\* dot product over 25.
Vectors == << <<5, 0>>, <<4, 3>>, <<3, 4>>, <<0, 5>>, <<-3, 4>>, <<-4, -3>>, <<4, -3>> >>

RECURSIVE CodeSum(_)
CodeSum(s) == IF s = <<>> THEN 0 ELSE CharCode(Head(s)) + CodeSum(Tail(s))

\* model.encode of one text
EncodeOne(m, s) == Vectors[((CodeSum(s) * m + Len(s)) % Len(Vectors)) + 1]

\* model.encode(batch, convert_to_tensor=True): one row per text
Encode(m, batch) == [i \in 1..Len(batch) |-> EncodeOne(m, batch[i])]

\* util.cos_sim of two rows, in hundredths
CosSim(u, v) == (u[1] * v[1] + u[2] * v[2]) * 4

\* ------------------------------------------------------- category registry
\* dict.get(key, default) on a definition mapping
Get(data, key, default) == IF key \in DOMAIN data THEN data[key] ELSE default

CategoryData(name, description, keywords, category_type) ==
    [name |-> name, description |-> description, keywords |-> keywords,
     category_type |-> category_type, description_embedding |-> None]

\* One group of definitions, a dict in insertion order: a sequence of
\* <<name, data>> pairs with pairwise distinct names.
GroupCategories(defs, group_type) ==
    [i \in 1..Len(defs) |->
        CategoryData(defs[i][1],
                     Get(defs[i][2], "description", <<>>),
                     Get(defs[i][2], "keywords", <<>>),
                     Get(defs[i][2], "category_type", group_type))]

\* The expense group listed before the income group.
load_categories_expense_first(income_defs, expense_defs) ==
    GroupCategories(expense_defs, "expense") \o GroupCategories(income_defs, "income")

load_categories(income_defs, expense_defs) ==
    GroupCategories(income_defs, "income") \o GroupCategories(expense_defs, "expense")

\* ------------------------------------------------------------ constructor
\* dict.setdefault instead of assignment: the first writer wins.
SetItemIfAbsent(map, key, value) ==
    [k \in (DOMAIN map) \cup {key} |-> IF k \in DOMAIN map THEN map[k] ELSE value]

\* keyword_to_category[kw_lower] = cat.name
SetItem(map, key, value) ==
    [k \in (DOMAIN map) \cup {key} |-> IF k = key THEN value ELSE map[k]]

RECURSIVE AddKeywords(_, _, _)
AddKeywords(kws, name, acc) ==
    IF kws = <<>> THEN acc
    ELSE LET kw_lower == Lower(Head(kws)) IN
         AddKeywords(Tail(kws), name,
                     [keyword_to_category |-> SetItem(acc.keyword_to_category, kw_lower, name),
                      all_keywords |-> Append(acc.all_keywords, kw_lower)])

RECURSIVE BuildKeywords(_, _)
BuildKeywords(cats, acc) ==
    IF cats = <<>> THEN acc
    ELSE BuildKeywords(Tail(cats), AddKeywords(Head(cats).keywords, Head(cats).name, acc))

NoKeywords == [keyword_to_category |-> <<>>, all_keywords |-> <<>>]

\* The object before / without a successful construction.
NoCategorizer ==
    [built |-> FALSE, model |-> 0, categories |-> <<>>, category_names |-> <<>>,
     category_descriptions |-> <<>>, keyword_to_category |-> <<>>,
     all_keywords |-> <<>>, category_embeddings |-> <<>>]

\* SmartCategorizer.__init__ past the emptiness check: the fields it sets
NewCategorizer(cats, m) ==
    LET kw == BuildKeywords(cats, NoKeywords)
        descriptions == [i \in 1..Len(cats) |-> cats[i].description]
    IN [built |-> TRUE, model |-> m, categories |-> cats,
        category_names |-> [i \in 1..Len(cats) |-> cats[i].name],
        category_descriptions |-> descriptions,
        keyword_to_category |-> kw.keyword_to_category,
        all_keywords |-> kw.all_keywords,
        category_embeddings |-> Encode(m, descriptions)]

\* A constructor without the emptiness check.
SmartCategorizerUnchecked(cats, m) == [raised |-> None, obj |-> NewCategorizer(cats, m)]

\* SmartCategorizer(categories=cats): the exception raised, if any, and the
\* object bound by the caller.  The model is loaded first; an empty list
\* then raises ValueError and nothing is bound.
SmartCategorizer(cats, m) ==
    IF cats = <<>>
    THEN [raised |-> "ValueError", obj |-> NoCategorizer]
    ELSE [raised |-> None, obj |-> NewCategorizer(cats, m)]

\* ---------------------------------------------------------- fuzzy matcher
NoResult == [found |-> FALSE, choice |-> <<>>, score |-> ZeroScore, index |-> 0]

\* A cutoff that a score must exceed instead of reach.
RECURSIVE ExtractOneAboveCutoff(_, _, _, _, _)
ExtractOneAboveCutoff(query, choices, cutoff, i, best) ==
    IF i > Len(choices) THEN best
    ELSE LET score == PartialRatio(query, choices[i])
             better == 100 * score.num > cutoff * score.den
                       /\ (~best.found \/ ScoreGT(score, best.score))
         IN ExtractOneAboveCutoff(query, choices, cutoff, i + 1,
                IF better
                THEN [found |-> TRUE, choice |-> choices[i], score |-> score, index |-> i]
                ELSE best)

\* process.extractOne(query, choices, scorer=fuzz.partial_ratio,
\* score_cutoff=cutoff): the first choice with the highest score, if that
\* score reaches the cutoff.
RECURSIVE ExtractOneFrom(_, _, _, _, _)
ExtractOneFrom(query, choices, cutoff, i, best) ==
    IF i > Len(choices) THEN best
    ELSE LET score == PartialRatio(query, choices[i])
             better == ReachesCutoff(score, cutoff)
                       /\ (~best.found \/ ScoreGT(score, best.score))
         IN ExtractOneFrom(query, choices, cutoff, i + 1,
                IF better
                THEN [found |-> TRUE, choice |-> choices[i], score |-> score, index |-> i]
                ELSE best)

ExtractOne(query, choices, cutoff) == ExtractOneFrom(query, choices, cutoff, 1, NoResult)

find_fuzzy_match(obj, description, threshold) ==
    IF obj.all_keywords = <<>> THEN None
    ELSE LET cleaned_description == Lower(description)
             result == ExtractOne(cleaned_description, obj.all_keywords, threshold)
         IN IF result.found THEN obj.keyword_to_category[result.choice] ELSE None

\* ------------------------------------------------------------ orchestrator
\* Python truthiness of an optional string: None and "" are falsy.
Truthy(x) == x # None /\ x # ""

\* results[i] = value
SetSlot(results, i, value) == [results EXCEPT ![i] = value]

\* A loop body that files only a None answer under the remaining texts,
\* so a falsy answer that is not None lands nowhere.
FuzzyStepDropFalsy(st, i, desc, fuzzy_cat) ==
    IF Truthy(fuzzy_cat)
    THEN [st EXCEPT !.results = SetSlot(st.results, i, fuzzy_cat)]
    ELSE IF fuzzy_cat # None THEN st
    ELSE [st EXCEPT !.remaining_indices = Append(st.remaining_indices, i),
                    !.remaining_descriptions = Append(st.remaining_descriptions, desc)]

\* One iteration of stage 1: `if fuzzy_cat:` files the text under the
\* keyword results, else under the remaining texts.
FuzzyStep(st, i, desc, fuzzy_cat) ==
    IF Truthy(fuzzy_cat)
    THEN [st EXCEPT !.results = SetSlot(st.results, i, fuzzy_cat)]
    ELSE [st EXCEPT !.remaining_indices = Append(st.remaining_indices, i),
                    !.remaining_descriptions = Append(st.remaining_descriptions, desc)]

\* Stage 1 of predict_batch: the loop over enumerate(cleaned_descriptions).
RECURSIVE FuzzyStage(_, _, _, _, _)
FuzzyStage(obj, cleaned, fuzzy_threshold, i, st) ==
    IF i > Len(cleaned) THEN st
    ELSE FuzzyStage(obj, cleaned, fuzzy_threshold, i + 1,
                    FuzzyStep(st, i, cleaned[i],
                              find_fuzzy_match(obj, cleaned[i], fuzzy_threshold)))

\* torch.argmax: the index of the first maximal value
ArgMax(scores) ==
    CHOOSE j \in 1..Len(scores) :
        /\ \A k \in 1..Len(scores) : scores[k] <= scores[j]
        /\ \A k \in 1..(j - 1) : scores[k] < scores[j]

\* A comparison that accepts a similarity equal to the threshold.
ThresholdChoiceAtLeast(obj, best_score_idx, best_score, threshold) ==
    IF best_score >= threshold THEN obj.category_names[best_score_idx] ELSE UNKNOWN

\* `if best_score > threshold`: the best category, else "Unknown"
ThresholdChoice(obj, best_score_idx, best_score, threshold) ==
    IF best_score > threshold THEN obj.category_names[best_score_idx] ELSE UNKNOWN

\* The category chosen from one row of cosine scores.
SemanticChoice(obj, scores, threshold) ==
    ThresholdChoice(obj, ArgMax(scores), scores[ArgMax(scores)], threshold)

\* A merge that writes to the position in the remaining list instead of
\* the original position.
RECURSIVE MergeSemanticByPosition(_, _, _, _, _, _)
MergeSemanticByPosition(obj, cosine_scores, remaining_indices, threshold, i, results) ==
    IF i > Len(remaining_indices) THEN results
    ELSE MergeSemanticByPosition(obj, cosine_scores, remaining_indices, threshold, i + 1,
                                 SetSlot(results, i, SemanticChoice(obj, cosine_scores[i], threshold)))

\* Stage 2 of predict_batch: the loop over enumerate(remaining_indices).
RECURSIVE MergeSemantic(_, _, _, _, _, _)
MergeSemantic(obj, cosine_scores, remaining_indices, threshold, i, results) ==
    IF i > Len(remaining_indices) THEN results
    ELSE MergeSemantic(obj, cosine_scores, remaining_indices, threshold, i + 1,
                       SetSlot(results, remaining_indices[i],
                               SemanticChoice(obj, cosine_scores[i], threshold)))

\* A similarity matrix computed from one pooled embedding of the whole
\* batch: every row is the row of the first text.
CosineScoresPooled(desc_embeddings, category_embeddings) ==
    [i \in 1..Len(desc_embeddings) |->
        [j \in 1..Len(category_embeddings) |-> CosSim(desc_embeddings[1], category_embeddings[j])]]

\* util.cos_sim(desc_embeddings, category_embeddings)
CosineScores(desc_embeddings, category_embeddings) ==
    [i \in 1..Len(desc_embeddings) |->
        [j \in 1..Len(category_embeddings) |-> CosSim(desc_embeddings[i], category_embeddings[j])]]

\* The locals of predict_batch before stage 1.
EmptyStage(n) ==
    [results |-> [i \in 1..n |-> None], remaining_indices |-> <<>>,
     remaining_descriptions |-> <<>>]

\* cleaned_descriptions = [d.strip() for d in descriptions]
Cleaned(descriptions) == [i \in 1..Len(descriptions) |-> Strip(descriptions[i])]

\* Step 2 of predict_batch, from the locals st left by stage 1: one encode
\* call for the remaining texts, if there are any.
ModelFallback(obj, st, threshold) ==
    IF st.remaining_descriptions # <<>>
    THEN [results |-> MergeSemantic(obj,
                          CosineScores(Encode(obj.model, st.remaining_descriptions),
                                       obj.category_embeddings),
                          st.remaining_indices, threshold, 1, st.results),
          encoded |-> <<st.remaining_descriptions>>]
    ELSE [results |-> st.results, encoded |-> <<>>]

\* predict_batch: the returned list, and the batches handed to
\* model.encode during the call.
predict_batch(obj, descriptions, threshold, fuzzy_threshold) ==
    IF descriptions = <<>> THEN [results |-> <<>>, encoded |-> <<>>]
    ELSE ModelFallback(obj,
                       FuzzyStage(obj, Cleaned(descriptions), fuzzy_threshold, 1,
                                  EmptyStage(Len(descriptions))),
                       threshold)

DefaultThreshold == 25
DefaultFuzzyThreshold == 90

\* str(amount) of the Decimal amounts used in the tables
AmountStr(amount) ==
    CASE amount = 1 -> <<"1">>
      [] amount = -1 -> <<"-", "1">>
      [] amount = 2 -> <<"2">>
      [] OTHER -> <<"-", "2">>

\* A conversion to text without fillna: str(nan) is "nan".
FillNaAsText(cell) == IF cell = Null THEN <<"n", "a", "n">> ELSE cell

\* Series.fillna("")
FillNa(cell) == IF cell = Null THEN <<>> ELSE cell

\* description + " " + note + " amount=" + str(amount)
SearchString(row) ==
    FillNa(row.description) \o <<" ">> \o FillNa(row.note)
      \o <<" ", "a", "m", "o", "u", "n", "t", "=">> \o AmountStr(row.amount)

\* search_strings = (...).tolist()
SearchStrings(df) == [i \in 1..Len(df) |-> SearchString(df[i])]

\* categorize_transactions: what predict_batch returns for the search
\* strings becomes the category column; an empty table gets an empty one.
categorize_transactions(obj, df) ==
    IF df = <<>> THEN [results |-> <<>>, encoded |-> <<>>]
    ELSE predict_batch(obj, SearchStrings(df), DefaultThreshold, DefaultFuzzyThreshold)

\* ------------------------------------------------------------------ inputs
\* Keywords and descriptions as written in the configuration.
KwAb == <<"A", "b">>
KwAB == <<"A", "B">>
KwBc == <<"b", "c">>
KwC == <<"C">>
KwAcb == <<"a", "c", "b">>
KwEmpty == <<>>

DescFood == <<"a", "b">>
DescRide == <<"c">>
DescPay == <<"b", "a", "c">>

\* Category catalogs: the income and the expense mapping of the
\* configuration file, each a sequence of <<name, data>> pairs.
Configs ==
    { [income |-> <<>>, expense |-> <<>>],
      [income |-> <<>>,
       expense |-> << <<"Food", [keywords |-> <<KwAb, KwAcb>>, description |-> DescFood]>>,
                      <<"Transport", [keywords |-> <<KwBc, KwC>>, description |-> DescRide]>> >>],
      [income |-> << <<"Salary", [keywords |-> <<KwAb>>]>> >>,
       expense |-> << <<"Food", [keywords |-> <<KwC, KwAB>>, description |-> DescFood]>> >>],
      [income |-> << <<"", [keywords |-> <<KwAb>>, description |-> DescPay]>> >>,
       expense |-> << <<"Food", [description |-> DescFood]>> >>],
      [income |-> << <<"Food", [keywords |-> <<KwAb>>, description |-> DescPay]>> >>,
       expense |-> << <<"Food", [keywords |-> <<KwC>>, description |-> DescFood]>> >>],
      [income |-> << <<"Salary", <<>> >> >>, expense |-> <<>>],
      [income |-> <<>>,
       expense |-> << <<"Transport", [keywords |-> <<KwAcb>>, description |-> DescRide]>> >>],
      [income |-> << <<"Salary", [category_type |-> "expense", description |-> DescPay,
                                  keywords |-> <<KwEmpty>>]>>,
                     <<"Unknown", [description |-> DescRide]>> >>,
       expense |-> << <<"Transport", [keywords |-> <<KwBc>>, category_type |-> "income"]>> >>] }

\* Loaded embedding models.
Models == {1, 2}

\* Raw transaction texts.
Texts ==
    { <<" ", "A", "B", " ">>, <<"a", "b", "c">>, <<"a", "c">>, <<"C", " ", "b">>,
      <<>>, <<" ">> }

\* Confidence thresholds in hundredths, and fuzzy thresholds in percent.
Thresholds == {25, 60, 96}
FuzzyThresholds == {0, 80, 90}

\* All sequences over S of length at most n
RECURSIVE SeqsUpTo(_, _)
SeqsUpTo(S, n) ==
    IF n = 0 THEN {<<>>}
    ELSE LET shorter == SeqsUpTo(S, n - 1) IN
         shorter \cup {Append(q, x) : q \in shorter, x \in S}

Batches == SeqsUpTo(Texts, MaxBatch)

\* Rows of a parsed bank table.
Rows ==
    { [description |-> <<"A", "B">>, note |-> <<>>, amount |-> 1],
      [description |-> Null, note |-> <<"c">>, amount |-> -1],
      [description |-> <<"b">>, note |-> Null, amount |-> 2],
      [description |-> Null, note |-> Null, amount |-> -2] }

Tables == SeqsUpTo(Rows, MaxBatch)

\* ------------------------------------------------------------------- state
VARIABLES
    income_categories,   \* config["categories"]["income"]
    expense_categories,  \* config["categories"]["expense"]
    model,               \* the embedding model SentenceTransformer() loads
    categories,          \* the list load_categories returned
    self,                \* the SmartCategorizer object
    raised,              \* the exception that left the current operation
    pc,                  \* position of the driver
    call,                \* the call in progress: arguments and returned value
    db_initialized,      \* initialize_database has run
    accounts,            \* names in the accounts table
    bank_statements,     \* main's dict bank -> table, in iteration order
    bank_idx,            \* position of main's loop over bank_statements
    load_calls,          \* the load_data calls made so far
    uploaded,            \* upload_to_sheet has been called
    prev,                \* the finished call a client kept to repeat it
    db_categories,       \* rows of the categories table, in id order
    transactions,        \* rows of the transactions table
    db_call              \* the parser / database call in progress

catVars == <<income_categories, expense_categories, model, categories, self, raised, pc, call>>
mainVars == <<db_initialized, accounts, bank_statements, bank_idx, load_calls, uploaded>>
catData == <<income_categories, expense_categories, model, categories, self, raised, call>>
extVars == <<prev, db_categories, transactions, db_call>>
vars == <<catVars, mainVars, extVars>>

NoCall ==
    [op |-> "none", df |-> <<>>, descriptions |-> <<>>, threshold |-> 0,
     fuzzy_threshold |-> 0, results |-> <<>>, encoded |-> <<>>]

\* No parser or database call is in progress.
NoDbCall == [op |-> "none", bank |-> "", data |-> <<>>]

ConfigInit ==
    /\ \E cfg \in Configs :
          /\ income_categories = cfg.income
          /\ expense_categories = cfg.expense
    /\ model \in Models
    /\ categories = <<>>
    /\ self = NoCategorizer
    /\ raised = None
    /\ call = NoCall
    /\ db_initialized = FALSE
    /\ accounts = {}
    /\ bank_statements = <<>>
    /\ bank_idx = 0
    /\ load_calls = <<>>
    /\ uploaded = FALSE
    /\ prev = NoCall
    /\ db_categories = <<>>
    /\ transactions = {}
    /\ db_call = NoDbCall

\* A client of the categorizer module: it loads the registry, constructs
\* the object and then calls its methods in any order.
Init == ConfigInit /\ pc = "load_categories"

\* categories = load_categories(income_cats, expense_cats)
LoadCategories ==
    /\ pc = "load_categories"
    /\ categories' = load_categories(income_categories, expense_categories)
    /\ pc' = "construct"
    /\ UNCHANGED <<income_categories, expense_categories, model, self, raised, call>>
    /\ UNCHANGED mainVars
    /\ UNCHANGED extVars

\* cat = SmartCategorizer(categories=categories)
Construct ==
    /\ pc = "construct"
    /\ LET r == SmartCategorizer(categories, model) IN
          /\ raised' = r.raised
          /\ self' = r.obj
          /\ pc' = IF r.raised = None THEN "ready" ELSE "raised"
    /\ UNCHANGED <<income_categories, expense_categories, model, categories, call>>
    /\ UNCHANGED mainVars
    /\ UNCHANGED extVars

\* The record of a finished call: r is what the method computed.
Called(op, df, descriptions, threshold, fuzzy_threshold, r) ==
    [op |-> op, df |-> df, descriptions |-> descriptions, threshold |-> threshold,
     fuzzy_threshold |-> fuzzy_threshold, results |-> r.results, encoded |-> r.encoded]

\* A matcher that remembers each query as a new entry of the keyword list.
FindFuzzyMatchMemoising(description, threshold) ==
    /\ pc = "ready"
    /\ call' = Called("find_fuzzy_match", <<>>, <<description>>, 0, threshold,
                      [results |-> <<find_fuzzy_match(self, description, threshold)>>,
                       encoded |-> <<>>])
    /\ self' = [self EXCEPT !.all_keywords = Append(@, Lower(description))]
    /\ pc' = "returned"
    /\ UNCHANGED <<income_categories, expense_categories, model, categories, raised>>
    /\ UNCHANGED mainVars
    /\ UNCHANGED extVars

\* self.find_fuzzy_match(description, threshold)
FindFuzzyMatch(description, threshold) ==
    /\ pc = "ready"
    /\ call' = Called("find_fuzzy_match", <<>>, <<description>>, 0, threshold,
                      [results |-> <<find_fuzzy_match(self, description, threshold)>>,
                       encoded |-> <<>>])
    /\ pc' = "returned"
    /\ UNCHANGED <<income_categories, expense_categories, model, categories, self, raised>>
    /\ UNCHANGED mainVars
    /\ UNCHANGED extVars

\* A predict_batch that consumes the keyword list while it matches.
PredictBatchConsuming(descriptions, threshold, fuzzy_threshold) ==
    /\ pc = "ready"
    /\ call' = Called("predict_batch", <<>>, descriptions, threshold, fuzzy_threshold,
                      predict_batch(self, descriptions, threshold, fuzzy_threshold))
    /\ self' = [self EXCEPT !.all_keywords = <<>>]
    /\ pc' = "returned"
    /\ UNCHANGED <<income_categories, expense_categories, model, categories, raised>>
    /\ UNCHANGED mainVars
    /\ UNCHANGED extVars

\* self.predict_batch(descriptions, threshold, fuzzy_threshold)
PredictBatch(descriptions, threshold, fuzzy_threshold) ==
    /\ pc = "ready"
    /\ call' = Called("predict_batch", <<>>, descriptions, threshold, fuzzy_threshold,
                      predict_batch(self, descriptions, threshold, fuzzy_threshold))
    /\ pc' = "returned"
    /\ UNCHANGED <<income_categories, expense_categories, model, categories, self, raised>>
    /\ UNCHANGED mainVars
    /\ UNCHANGED extVars

\* predict_batch([description], threshold)[0]
FirstOf(r) == [results |-> <<r.results[1]>>, encoded |-> r.encoded]

\* self.predict(description, threshold)
Predict(description, threshold) ==
    /\ pc = "ready"
    /\ call' = Called("predict", <<>>, <<description>>, threshold, DefaultFuzzyThreshold,
                      FirstOf(predict_batch(self, <<description>>, threshold,
                                            DefaultFuzzyThreshold)))
    /\ pc' = "returned"
    /\ UNCHANGED <<income_categories, expense_categories, model, categories, self, raised>>
    /\ UNCHANGED mainVars
    /\ UNCHANGED extVars

\* self.categorize_transactions(df)
CategorizeTransactions(df) ==
    /\ pc = "ready"
    /\ call' = Called("categorize_transactions", df, SearchStrings(df), DefaultThreshold,
                      DefaultFuzzyThreshold, categorize_transactions(self, df))
    /\ pc' = "returned"
    /\ UNCHANGED <<income_categories, expense_categories, model, categories, self, raised>>
    /\ UNCHANGED mainVars
    /\ UNCHANGED extVars

\* The caller takes the returned value; the object is ready for the next call.
Return ==
    /\ pc = "returned"
    /\ call' = NoCall
    /\ pc' = "ready"
    /\ UNCHANGED <<income_categories, expense_categories, model, categories, self, raised>>
    /\ UNCHANGED mainVars
    /\ UNCHANGED extVars

Next ==
    \/ LoadCategories
    \/ Construct
    \/ \E d \in Texts, t \in FuzzyThresholds : FindFuzzyMatch(d, t)
    \/ \E ds \in Batches, t \in Thresholds, ft \in FuzzyThresholds : PredictBatch(ds, t, ft)
    \/ \E d \in Texts, t \in Thresholds : Predict(d, t)
    \/ \E df \in Tables : CategorizeTransactions(df)
    \/ Return

Spec == Init /\ [][Next]_vars

\* ------------------------------------------------------- repeating a call
\* A client that keeps what predict_batch returned and then makes the same
\* call again on the same object.
KeepResult ==
    /\ pc = "returned"
    /\ call.op = "predict_batch"
    /\ prev' = call
    /\ call' = NoCall
    /\ pc' = "again"
    /\ UNCHANGED <<income_categories, expense_categories, model, categories, self, raised>>
    /\ UNCHANGED mainVars
    /\ UNCHANGED <<db_categories, transactions, db_call>>

\* self.predict_batch(descriptions, threshold, fuzzy_threshold), a second
\* time with the arguments of the call kept in prev
PredictBatchAgain ==
    /\ pc = "again"
    /\ call' = Called("predict_batch", <<>>, prev.descriptions, prev.threshold,
                      prev.fuzzy_threshold,
                      predict_batch(self, prev.descriptions, prev.threshold,
                                    prev.fuzzy_threshold))
    /\ pc' = "returned_again"
    /\ UNCHANGED <<income_categories, expense_categories, model, categories, self, raised>>
    /\ UNCHANGED mainVars
    /\ UNCHANGED extVars

RerunNext ==
    \/ LoadCategories
    \/ Construct
    \/ \E ds \in Batches, t \in Thresholds, ft \in FuzzyThresholds : PredictBatch(ds, t, ft)
    \/ KeepResult
    \/ PredictBatchAgain

SpecRerun == Init /\ [][RerunNext]_vars

\* ------------------------------------------------------------ main pipeline
\* Account names the configuration may seed, and the statement tables
\* read_statement_files may return (a dict bank -> table).
AccountSets == { {}, {"N26"}, {"N26", "seb"} }

NoCase(name) == CASE name = "N26" -> "n26" [] name = "SEB" -> "seb" [] OTHER -> name

MainTables ==
    { <<>>,
      << [description |-> <<"A", "B">>, note |-> <<>>, amount |-> 1] >>,
      << [description |-> Null, note |-> <<"c">>, amount |-> -1],
         [description |-> <<"b">>, note |-> Null, amount |-> 2] >> }

Statements ==
    {<<>>}
      \cup { << <<b, t>> >> : b \in {"n26", "seb"}, t \in MainTables }
      \cup { << <<bb[1], t1>>, <<bb[2], t2>> >> :
                bb \in {<<"n26", "seb">>, <<"seb", "n26">>}, t1 \in MainTables, t2 \in MainTables }

\* main() from its first statement.
MainInit == ConfigInit /\ pc = "read_config"

\* config = parsers.read_config()
MainReadConfig ==
    /\ pc = "read_config"
    /\ pc' = "initialize_database"
    /\ UNCHANGED <<income_categories, expense_categories, model, categories, self, raised, call>>
    /\ UNCHANGED mainVars
    /\ UNCHANGED extVars

\* db.initialize_database(config): tables created, accounts seeded from
\* config["accounts"]
MainInitializeDatabase ==
    /\ pc = "initialize_database"
    /\ db_initialized' = TRUE
    /\ \E seeded \in AccountSets : accounts' = seeded
    /\ pc' = "read_statement_files"
    /\ UNCHANGED catData
    /\ UNCHANGED <<bank_statements, bank_idx, load_calls, uploaded>>
    /\ UNCHANGED extVars

\* bank_statements = parsers.read_statement_files(config)
MainReadStatementFiles ==
    /\ pc = "read_statement_files"
    /\ \E st \in Statements : bank_statements' = st
    /\ pc' = "main_load_categories"
    /\ UNCHANGED catData
    /\ UNCHANGED <<db_initialized, accounts, bank_idx, load_calls, uploaded>>
    /\ UNCHANGED extVars

\* categories = categorizer.load_categories(income_cats, expense_cats)
MainLoadCategories ==
    /\ pc = "main_load_categories"
    /\ categories' = load_categories(income_categories, expense_categories)
    /\ pc' = "main_construct"
    /\ UNCHANGED <<income_categories, expense_categories, model, self, raised, call>>
    /\ UNCHANGED mainVars
    /\ UNCHANGED extVars

\* predict_category = categorizer.SmartCategorizer(categories=categories);
\* an exception leaves main()
MainConstruct ==
    /\ pc = "main_construct"
    /\ LET r == SmartCategorizer(categories, model) IN
          /\ raised' = r.raised
          /\ self' = r.obj
          /\ pc' = IF r.raised = None THEN "loop" ELSE "main_raised"
    /\ bank_idx' = 1
    /\ UNCHANGED <<income_categories, expense_categories, model, categories, call>>
    /\ UNCHANGED <<db_initialized, accounts, bank_statements, load_calls, uploaded>>
    /\ UNCHANGED extVars

\* for bank, df in bank_statements.items():
\*     df = predict_category.categorize_transactions(df)
MainCategorize ==
    /\ pc = "loop"
    /\ bank_idx <= Len(bank_statements)
    /\ call' = Called("categorize_transactions", bank_statements[bank_idx][2],
                      SearchStrings(bank_statements[bank_idx][2]), DefaultThreshold,
                      DefaultFuzzyThreshold,
                      categorize_transactions(self, bank_statements[bank_idx][2]))
    /\ pc' = "load_data"
    /\ UNCHANGED <<income_categories, expense_categories, model, categories, self, raised>>
    /\ UNCHANGED mainVars
    /\ UNCHANGED extVars

\* db.load_data(bank, df): an empty table returns at once; an unknown
\* account raises ValueError out of main(); otherwise the rows are handed
\* to the database.
MainLoadData ==
    /\ pc = "load_data"
    /\ LET bank == bank_statements[bank_idx][1]
           known == \E a \in accounts : NoCase(a) = NoCase(bank)
           failed == call.df # <<>> /\ ~known
       IN /\ load_calls' = Append(load_calls,
                [bank |-> bank, data |-> call.df, category |-> call.results,
                 stored |-> call.df # <<>> /\ known])
          /\ raised' = IF failed THEN "ValueError" ELSE raised
          /\ pc' = IF failed THEN "main_raised" ELSE "loop"
          /\ bank_idx' = IF failed THEN bank_idx ELSE bank_idx + 1
    /\ call' = NoCall
    /\ UNCHANGED <<income_categories, expense_categories, model, categories, self>>
    /\ UNCHANGED <<db_initialized, accounts, bank_statements, uploaded>>
    /\ UNCHANGED extVars

\* df = db.get_all_transactions(); sheets.upload_to_sheet(df, ...)
MainUpload ==
    /\ pc = "loop"
    /\ bank_idx > Len(bank_statements)
    /\ uploaded' = TRUE
    /\ pc' = "main_done"
    /\ UNCHANGED <<income_categories, expense_categories, model, categories, self, raised, call>>
    /\ UNCHANGED <<db_initialized, accounts, bank_statements, bank_idx, load_calls>>
    /\ UNCHANGED extVars

MainNext ==
    \/ MainReadConfig
    \/ MainInitializeDatabase
    \/ MainReadStatementFiles
    \/ MainLoadCategories
    \/ MainConstruct
    \/ MainCategorize
    \/ MainLoadData
    \/ MainUpload

SpecMain == MainInit /\ [][MainNext]_vars

\* ------------------------------------------------------- statement tables
\* decimal.Decimal as the parsers build it from the amount text: the digits
\* as an integer and the number of decimal places ("10.50" is 1050, 2).
Decimal(units, places) == [units |-> units, places |-> places]

RECURSIVE Pow10(_)
Pow10(n) == IF n = 0 THEN 1 ELSE 10 * Pow10(n - 1)

\* Decimal.__eq__: equality of the values
DecimalEq(a, b) == a.units * Pow10(b.places) = b.units * Pow10(a.places)

DigitChar(n) ==
    CASE n = 0 -> "0" [] n = 1 -> "1" [] n = 2 -> "2" [] n = 3 -> "3" [] n = 4 -> "4"
      [] n = 5 -> "5" [] n = 6 -> "6" [] n = 7 -> "7" [] n = 8 -> "8" [] OTHER -> "9"

\* The decimal digits of a natural number, at least k of them.
RECURSIVE Digits(_, _)
Digits(n, k) ==
    IF n < 10 /\ k <= 1 THEN <<DigitChar(n)>>
    ELSE Append(Digits(n \div 10, k - 1), DigitChar(n % 10))

Abs(n) == IF n < 0 THEN -n ELSE n

\* The point placed before the last `places` digits.
Pointed(ds, places) ==
    IF places = 0 THEN ds
    ELSE SubSeq(ds, 1, Len(ds) - places) \o <<".">> \o SubSeq(ds, Len(ds) - places + 1, Len(ds))

\* str(Decimal): the sign, the digits and the point as they were written
DecimalStr(d) ==
    (IF d.units < 0 THEN <<"-">> ELSE <<>>) \o Pointed(Digits(Abs(d.units), d.places + 1), d.places)

\* int(row["amount"] * 100): cents, truncated toward zero
AmountCents(d) ==
    IF d.units >= 0 THEN (d.units * 100) \div Pow10(d.places)
    ELSE -(((-d.units) * 100) \div Pow10(d.places))

\* f"{value}" of a text cell: a missing cell is the float nan
CellStr(cell) == IF cell = Null THEN <<"n", "a", "n">> ELSE cell

\* hashlib.md5(raw_str.encode()).hexdigest(): the digest stands for the
\* text it was computed from (digests of different texts differ)
Md5(raw_str) == <<"md5", raw_str>>

\* A hash that also feeds the note into the digest.
generate_hash_id_with_note(row) ==
    Md5(row.date \o DecimalStr(row.amount) \o CellStr(row.description) \o CellStr(row.note))

\* raw_str = f"{row['date']}{row['amount']}{row['description']}"
generate_hash_id(row) ==
    Md5(row.date \o DecimalStr(row.amount) \o CellStr(row.description))

\* df["hash_id"] = df.apply(generate_hash_id, axis=1)
WithHashId(row) ==
    [date |-> row.date, amount |-> row.amount, description |-> row.description,
     note |-> row.note, hash_id |-> generate_hash_id(row)]

\* parse_*_file: the rows of a statement file with their hash_id column
ParseFile(lines) == [i \in 1..Len(lines) |-> WithHashId(lines[i])]

\* df[~df["hash_id"].isin(existing_hash_ids)]
filter_our_present_data(df, stored) ==
    IF df = <<>> THEN df
    ELSE SelectSeq(df, LAMBDA row : row.hash_id \notin {t.hash_id : t \in stored})

\* The name categorize_transactions puts in the category column of a row;
\* the categorizer is represented by a fixed answer per note.
CategoryFor(row) ==
    CASE row.note = Null -> UNKNOWN
      [] row.note = <<>> -> "Transport"
      [] OTHER -> "Food"

\* df["category"] = self.predict_batch(search_strings)
WithCategory(df) ==
    [i \in 1..Len(df) |->
        [date |-> df[i].date, amount |-> df[i].amount, description |-> df[i].description,
         note |-> df[i].note, hash_id |-> df[i].hash_id, category |-> CategoryFor(df[i])]]

\* --------------------------------------------------------------- database
\* ",".join(keywords)
RECURSIVE Join(_)
Join(keywords) ==
    IF keywords = <<>> THEN <<>>
    ELSE IF Len(keywords) = 1 THEN keywords[1]
    ELSE keywords[1] \o <<",">> \o Join(Tail(keywords))

\* INSERT OR IGNORE INTO categories: the row gets the next id unless the
\* name is already in the table (name TEXT UNIQUE)
InsertCategory(table, name, type, keywords, description) ==
    IF \E i \in 1..Len(table) : table[i].name = name THEN table
    ELSE Append(table, [id |-> Len(table) + 1, name |-> name, type |-> type,
                        keywords |-> keywords, description |-> description])

\* for name, data in cats.items(): INSERT OR IGNORE ...
RECURSIVE SeedGroup(_, _, _, _)
SeedGroup(table, cat_type, cats, i) ==
    IF i > Len(cats) THEN table
    ELSE SeedGroup(InsertCategory(table, cats[i][1], cat_type,
                                  Join(Get(cats[i][2], "keywords", <<>>)),
                                  Get(cats[i][2], "description", <<>>)),
                   cat_type, cats, i + 1)

UnknownDescription == "Automatically assigned for low confidence matches"

\* A seeding that leaves the "Unknown" row out.
SeedCategoriesConfiguredOnly(table, income, expense) ==
    IF Len(table) = 0
    THEN SeedGroup(SeedGroup(table, "Income", income, 1), "Expense", expense, 1)
    ELSE table

\* _seed_default_data, categories: only an empty table is seeded, with the
\* income group, the expense group and then "Unknown"
SeedCategories(table, income, expense) ==
    IF Len(table) = 0
    THEN InsertCategory(SeedGroup(SeedGroup(table, "Income", income, 1), "Expense", expense, 1),
                        UNKNOWN, "Expense", <<>>, UnknownDescription)
    ELSE table

\* _seed_default_data, accounts: only an empty table is seeded
SeedAccounts(table, configured) == IF table = {} THEN configured ELSE table

\* SELECT id FROM accounts WHERE name = ? COLLATE NOCASE: the matching rows
AccountRows(table, bank) == {a \in table : NoCase(a) = NoCase(bank)}

\* category_map = {name: cid for cid, name in c.fetchall()}
CategoryMap(table) ==
    [name \in {table[i].name : i \in 1..Len(table)} |->
        table[CHOOSE i \in 1..Len(table) :
                 /\ table[i].name = name
                 /\ \A j \in (i + 1)..Len(table) : table[j].name # name].id]

\* NULL in an INTEGER column; the ids of rows start at 1.
SqlNull == 0

\* category_map.get(category_name), and category_map.get("Unknown") when
\* that is None
CategoryId(category_map, category_name) ==
    IF Get(category_map, category_name, SqlNull) = SqlNull
    THEN Get(category_map, UNKNOWN, SqlNull)
    ELSE category_map[category_name]

\* A lookup without the fallback.
RecordWithoutFallback(row, account_id, category_map) ==
    [hash_id |-> row.hash_id, date |-> row.date, amount |-> AmountCents(row.amount),
     description |-> row.description, account_id |-> account_id,
     category_id |-> Get(category_map, Get(row, "category", UNKNOWN), SqlNull),
     note |-> row.note]

\* The tuple load_data appends to records for one row.
Record(row, account_id, category_map) ==
    [hash_id |-> row.hash_id, date |-> row.date, amount |-> AmountCents(row.amount),
     description |-> row.description, account_id |-> account_id,
     category_id |-> CategoryId(category_map, Get(row, "category", UNKNOWN)),
     note |-> row.note]

\* INSERT OR REPLACE: the new row takes the place of the stored one.
InsertOrReplace(stored, record) ==
    {t \in stored : t.hash_id # record.hash_id} \cup {record}

\* INSERT OR IGNORE INTO transactions: a row whose hash_id is stored
\* (PRIMARY KEY) or whose date is NULL (NOT NULL) is skipped
InsertOrIgnore(stored, record) ==
    IF (\E t \in stored : t.hash_id = record.hash_id) \/ record.date = Null
    THEN stored
    ELSE stored \cup {record}

\* c.executemany(INSERT OR IGNORE ..., records)
RECURSIVE ExecuteMany(_, _, _)
ExecuteMany(stored, records, i) ==
    IF i > Len(records) THEN stored
    ELSE ExecuteMany(InsertOrIgnore(stored, records[i]), records, i + 1)

\* ValueError(f"Account '{bank}' not found in database.")
AccountNotFound(bank) == "ValueError: Account '" \o bank \o "' not found in database."

\* Records for the rows whose category name is in the table only.
RecordsOfKnownCategories(data, account_id, category_map) ==
    [i \in 1..Len(SelectSeq(data, LAMBDA row : Get(row, "category", UNKNOWN) \in DOMAIN category_map)) |->
        Record(SelectSeq(data, LAMBDA row : Get(row, "category", UNKNOWN) \in DOMAIN category_map)[i],
               account_id, category_map)]

\* The rows load_data inserts for an account it found.
Records(data, account_id, category_map) ==
    [i \in 1..Len(data) |-> Record(data[i], account_id, category_map)]

\* A load that stores the rows without an account when none matches.
load_data_unchecked(account_table, category_table, stored, bank, data) ==
    IF data = <<>> THEN [raised |-> None, transactions |-> stored]
    ELSE [raised |-> None,
          transactions |->
              ExecuteMany(stored,
                          Records(data,
                                  IF AccountRows(account_table, bank) = {} THEN None
                                  ELSE CHOOSE a \in AccountRows(account_table, bank) : TRUE,
                                  CategoryMap(category_table)),
                          1)]

\* load_data(bank, data): the exception it raises, if any, and the
\* transactions table it leaves
load_data(account_table, category_table, stored, bank, data) ==
    IF data = <<>> THEN [raised |-> None, transactions |-> stored]
    ELSE IF AccountRows(account_table, bank) = {}
    THEN [raised |-> AccountNotFound(bank), transactions |-> stored]
    ELSE [raised |-> None,
          transactions |->
              ExecuteMany(stored,
                          Records(data, CHOOSE a \in AccountRows(account_table, bank) : TRUE,
                                  CategoryMap(category_table)),
                          1)]

\* ------------------------------------------------------- database inputs
Date1 == <<"2023-11-01">>
Date2 == <<"2023-11-02">>

\* Lines of statement files: the same purchase written as 10.50 and as
\* 10.5, the same purchase with another note, and a line without text.
StatementLines ==
    { [date |-> Date1, amount |-> Decimal(1050, 2), description |-> <<"a", "b">>, note |-> <<"c">>],
      [date |-> Date1, amount |-> Decimal(105, 1), description |-> <<"a", "b">>, note |-> <<"c">>],
      [date |-> Date1, amount |-> Decimal(1050, 2), description |-> <<"a", "b">>, note |-> <<>>],
      [date |-> Date2, amount |-> Decimal(-1, 0), description |-> Null, note |-> Null] }

StatementFiles == SeqsUpTo(StatementLines, MaxRows)

Banks == {"n26", "seb"}

\* A script that uses the parsers and the database module: it initializes
\* the database and then parses, filters, categorizes and loads tables.
DbInit == ConfigInit /\ model = 1 /\ pc = "db_start"

\* db.initialize_database(config)
DbInitializeDatabase(configured_accounts) ==
    /\ pc \in {"db_start", "db_idle"}
    /\ db_initialized' = TRUE
    /\ db_categories' = SeedCategories(db_categories, income_categories, expense_categories)
    /\ accounts' = SeedAccounts(accounts, configured_accounts)
    /\ db_call' = NoDbCall
    /\ pc' = "db_idle"
    /\ UNCHANGED catData
    /\ UNCHANGED <<bank_statements, bank_idx, load_calls, uploaded>>
    /\ UNCHANGED <<prev, transactions>>

\* parse_func(path) for the files of one bank
DbParseFile(bank, lines) ==
    /\ pc = "db_idle"
    /\ db_call' = [op |-> "parse", bank |-> bank, data |-> ParseFile(lines)]
    /\ pc' = "db_table"
    /\ UNCHANGED catData
    /\ UNCHANGED mainVars
    /\ UNCHANGED <<prev, db_categories, transactions>>

\* filter_our_present_data(combined_df)
DbFilter ==
    /\ pc = "db_table"
    /\ db_call.op = "parse"
    /\ db_call' = [op |-> "filter", bank |-> db_call.bank,
                   data |-> filter_our_present_data(db_call.data, transactions)]
    /\ UNCHANGED pc
    /\ UNCHANGED <<income_categories, expense_categories, model, categories, self, raised, call>>
    /\ UNCHANGED mainVars
    /\ UNCHANGED <<prev, db_categories, transactions>>

\* df = predict_category.categorize_transactions(df)
DbCategorize ==
    /\ pc = "db_table"
    /\ db_call.op \in {"parse", "filter"}
    /\ db_call' = [op |-> "categorize", bank |-> db_call.bank, data |-> WithCategory(db_call.data)]
    /\ UNCHANGED pc
    /\ UNCHANGED <<income_categories, expense_categories, model, categories, self, raised, call>>
    /\ UNCHANGED mainVars
    /\ UNCHANGED <<prev, db_categories, transactions>>

\* What a load_data call leaves: r is what load_data computed.
Loaded(r) ==
    /\ raised' = r.raised
    /\ transactions' = r.transactions

\* db.load_data(bank, df), with the table in hand
DbLoadData ==
    /\ pc = "db_table"
    /\ Loaded(load_data(accounts, db_categories, transactions, db_call.bank, db_call.data))
    /\ db_call' = [op |-> "load_data", bank |-> db_call.bank, data |-> db_call.data]
    /\ pc' = "db_loaded"
    /\ UNCHANGED <<income_categories, expense_categories, model, categories, self, call>>
    /\ UNCHANGED mainVars
    /\ UNCHANGED <<prev, db_categories>>

\* db.load_data(bank, df) once more with the same arguments
DbLoadDataAgain ==
    /\ pc = "db_loaded"
    /\ raised = None
    /\ Loaded(load_data(accounts, db_categories, transactions, db_call.bank, db_call.data))
    /\ pc' = "db_reloaded"
    /\ UNCHANGED <<income_categories, expense_categories, model, categories, self, call>>
    /\ UNCHANGED mainVars
    /\ UNCHANGED <<prev, db_categories, db_call>>

\* The script goes on after the call (an exception has been caught).
DbReturn ==
    /\ pc \in {"db_loaded", "db_reloaded"}
    /\ raised' = None
    /\ db_call' = NoDbCall
    /\ pc' = "db_idle"
    /\ UNCHANGED <<income_categories, expense_categories, model, categories, self, call>>
    /\ UNCHANGED mainVars
    /\ UNCHANGED <<prev, db_categories, transactions>>

DbNext ==
    \/ \E configured_accounts \in AccountSets : DbInitializeDatabase(configured_accounts)
    \/ \E bank \in Banks, lines \in StatementFiles : DbParseFile(bank, lines)
    \/ DbFilter
    \/ DbCategorize
    \/ DbLoadData
    \/ DbLoadDataAgain
    \/ DbReturn

SpecDb == DbInit /\ [][DbNext]_vars

\* ------------------------------------------------------------ properties
Returned(op) == pc = "returned" /\ call.op = op

\* The cleaned text find_fuzzy_match scores inside predict_batch.
Query(text) == Lower(Strip(text))

\* Score of keyword k of the flat list against a query.
KwScore(q, k) == PartialRatio(q, self.all_keywords[k])

IsSubstring(kw, q) ==
    \E i \in 0..(Len(q) - Len(kw)) : SubSeq(q, i + 1, i + Len(kw)) = kw

\* Keyword k scores at least as high as every registered keyword.
IsBestKeyword(q, k) ==
    \A j \in 1..Len(self.all_keywords) : ScoreGE(KwScore(q, k), KwScore(q, j))

\* The text at position i of the call was settled by the keyword stage.
KeywordResolved(i) ==
    Truthy(find_fuzzy_match(self, Strip(call.descriptions[i]), call.fuzzy_threshold))

\* Cosine scores of one text against every category description.
ScoreRow(text) ==
    [j \in 1..Len(self.category_embeddings) |->
        CosSim(EncodeOne(self.model, Strip(text)), self.category_embeddings[j])]

\* The category decided for one text taken on its own.
DecidedCategory(text, threshold, fuzzy_threshold) ==
    LET fuzzy_cat == find_fuzzy_match(self, Strip(text), fuzzy_threshold) IN
    IF Truthy(fuzzy_cat) THEN fuzzy_cat
    ELSE SemanticChoice(self, ScoreRow(text), threshold)

\* C1: predict_batch returns a list as long as its input whose position i
\* holds the category decided for input text i; keyword-resolved and
\* semantically resolved results sit at their original positions, and the
\* empty list gives the empty list.
C1_BatchAligned ==
    Returned("predict_batch") =>
        /\ Len(call.results) = Len(call.descriptions)
        /\ DOMAIN call.results = 1..Len(call.descriptions)
        /\ \A i \in 1..Len(call.descriptions) :
              call.results[i] =
                  DecidedCategory(call.descriptions[i], call.threshold, call.fuzzy_threshold)
        /\ (call.descriptions = <<>> => call.results = <<>>)

\* A batch whose first text is keyword-resolved and whose second goes to
\* the semantic stage: the remaining index differs from its batch position.
C1_Witness ==
    /\ Returned("predict_batch")
    /\ Len(call.descriptions) = 2
    /\ KeywordResolved(1)
    /\ ~KeywordResolved(2)
    /\ call.results[1] # call.results[2]

\* C2 (as claimed): a text containing a registered keyword as a substring
\* with score >= fuzzy_threshold gets the category owning the best-scoring
\* keyword and is not in the batch given to the embedding model; when every
\* text is so resolved the model is not invoked.
C2_KeywordWins ==
    Returned("predict_batch") =>
        LET hit(i) ==
                \E k \in 1..Len(self.all_keywords) :
                    /\ IsSubstring(self.all_keywords[k], Query(call.descriptions[i]))
                    /\ ReachesCutoff(KwScore(Query(call.descriptions[i]), k), call.fuzzy_threshold)
        IN /\ \A i \in 1..Len(call.descriptions) :
                hit(i) =>
                  /\ \E k \in 1..Len(self.all_keywords) :
                        /\ IsBestKeyword(Query(call.descriptions[i]), k)
                        /\ call.results[i] = self.keyword_to_category[self.all_keywords[k]]
                  /\ \A b \in 1..Len(call.encoded) : \A n \in 1..Len(call.encoded[b]) :
                        call.encoded[b][n] # Strip(call.descriptions[i])
           /\ ((call.descriptions # <<>> /\ \A i \in 1..Len(call.descriptions) : hit(i))
                  => call.encoded = <<>>)

\* C3: a text not resolved by keyword gets a category of maximal cosine
\* similarity when that similarity is strictly above the confidence
\* threshold, and exactly "Unknown" when it is below or equal to it.
C3_SemanticThreshold ==
    Returned("predict_batch") =>
        \A i \in 1..Len(call.descriptions) :
            ~KeywordResolved(i) =>
                LET scores == ScoreRow(call.descriptions[i])
                    top == CHOOSE x \in {scores[j] : j \in 1..Len(scores)} :
                               \A j \in 1..Len(scores) : scores[j] <= x
                IN /\ top > call.threshold =>
                        \E j \in 1..Len(scores) :
                            scores[j] = top /\ call.results[i] = self.category_names[j]
                   /\ top <= call.threshold => call.results[i] = UNKNOWN

\* A text sent to the semantic stage whose best similarity equals the
\* threshold, in a registry with no category named "Unknown".
C3_Witness ==
    /\ Returned("predict_batch")
    /\ \E i \in 1..Len(call.descriptions) :
          /\ ~KeywordResolved(i)
          /\ \E j \in 1..Len(self.category_names) :
                ScoreRow(call.descriptions[i])[j] = call.threshold
          /\ \A j \in 1..Len(self.category_names) :
                ScoreRow(call.descriptions[i])[j] <= call.threshold
          /\ call.results[i] = UNKNOWN
    /\ \A j \in 1..Len(self.category_names) : self.category_names[j] # UNKNOWN

\* C4: after predict_batch, predict or categorize_transactions returns,
\* every slot is set (never None) to a registry name or "Unknown", one per
\* transaction; an empty table gets an empty category column.
C4_OneCategoryEach ==
    (pc = "returned" /\ call.op \in {"predict_batch", "predict", "categorize_transactions"}) =>
        /\ \A i \in 1..Len(call.results) :
              /\ call.results[i] # None
              /\ call.results[i] \in {self.category_names[j] : j \in 1..Len(self.category_names)}
                                       \cup {UNKNOWN}
        /\ (call.op = "categorize_transactions" => Len(call.results) = Len(call.df))
        /\ (call.op = "predict_batch" => Len(call.results) = Len(call.descriptions))

\* A text whose keyword match belongs to the category named "": the
\* matcher's answer is falsy without being None.
C4_Witness ==
    /\ Returned("predict_batch")
    /\ \E i \in 1..Len(call.descriptions) :
          find_fuzzy_match(self, Strip(call.descriptions[i]), call.fuzzy_threshold) = ""

\* C5: constructing with an empty category list raises ValueError from the
\* constructor and no categorizer object exists afterwards.
C5_EmptyRegistryRaises ==
    /\ (pc \notin {"load_categories", "construct"} /\ categories = <<>>) =>
          (raised = "ValueError" /\ pc = "raised" /\ self = NoCategorizer)
    /\ self.built => categories # <<>>

C5_Witness == pc = "raised" /\ categories = <<>> /\ raised = "ValueError"

\* C6: with an empty category catalog the constructor's ValueError leaves
\* main(): no table is categorized, load_data is never called and nothing
\* is uploaded in that run.
C6_EmptyCatalogHalts ==
    (income_categories = <<>> /\ expense_categories = <<>>) =>
        /\ load_calls = <<>>
        /\ ~uploaded
        /\ call = NoCall
        /\ ~self.built
        /\ pc \in {"read_config", "initialize_database", "read_statement_files",
                   "main_load_categories", "main_construct", "main_raised"}
        /\ (pc = "main_raised" => raised = "ValueError")

\* The run stopped at the constructor with statement tables waiting.
C6_Witness ==
    /\ income_categories = <<>> /\ expense_categories = <<>>
    /\ pc = "main_raised"
    /\ raised = "ValueError"
    /\ db_initialized
    /\ Len(bank_statements) = 2
    /\ bank_statements[1][2] # <<>>
    /\ accounts # {}

\* C7: find_fuzzy_match returns a category exactly when the best
\* partial-ratio score of a registered keyword against the lower-cased text
\* is >= threshold, and then the category owning a best-scoring keyword;
\* with no keywords at all it returns nothing.
C7_FuzzyMatchCutoff ==
    Returned("find_fuzzy_match") =>
        LET q == Lower(call.descriptions[1])
            r == call.results[1]
            n == Len(self.all_keywords)
            reached == \E k \in 1..n : ReachesCutoff(KwScore(q, k), call.fuzzy_threshold)
        IN /\ r # None =>
                \E k \in 1..n :
                    /\ IsBestKeyword(q, k)
                    /\ ReachesCutoff(KwScore(q, k), call.fuzzy_threshold)
                    /\ r = self.keyword_to_category[self.all_keywords[k]]
           /\ reached <=> r # None
           /\ n = 0 => r = None

\* A match whose best score is exactly the threshold, below 100.
C7_Witness ==
    /\ Returned("find_fuzzy_match")
    /\ call.results[1] # None
    /\ call.fuzzy_threshold = 80
    /\ \A k \in 1..Len(self.all_keywords) :
          ~ScoreGT(KwScore(Lower(call.descriptions[1]), k), [num |-> 4, den |-> 5])

\* Index of the last category that registers a keyword lower-casing to key.
LastOwner(key) ==
    CHOOSE j \in 1..Len(categories) :
        /\ \E n \in 1..Len(categories[j].keywords) : Lower(categories[j].keywords[n]) = key
        /\ \A m \in (j + 1)..Len(categories) :
              \A n \in 1..Len(categories[m].keywords) : Lower(categories[m].keywords[n]) # key

\* C8: a keyword registered by two categories is indexed under the
\* later-registered one, and a text matched through it gets that category.
C8_LastWriterWins ==
    self.built =>
        /\ \A key \in DOMAIN self.keyword_to_category :
              self.keyword_to_category[key] = categories[LastOwner(key)].name
        /\ Returned("find_fuzzy_match") =>
              LET m == ExtractOne(Lower(call.descriptions[1]), self.all_keywords,
                                  call.fuzzy_threshold)
              IN m.found => call.results[1] = categories[LastOwner(m.choice)].name

\* A text matched through a keyword whose first occurrence in the flat
\* list came from an earlier category than the one it is assigned to.
C8_Witness ==
    /\ Returned("find_fuzzy_match")
    /\ LET m == ExtractOne(Lower(call.descriptions[1]), self.all_keywords, call.fuzzy_threshold)
       IN /\ m.found
          /\ \E i \in 1..Len(categories) :
                /\ i < LastOwner(m.choice)
                /\ \E n \in 1..Len(categories[i].keywords) :
                      Lower(categories[i].keywords[n]) = m.choice
                /\ categories[i].name # categories[LastOwner(m.choice)].name
          /\ call.results[1] = categories[LastOwner(m.choice)].name

\* C9 (as claimed): every category name is unique in the registry that
\* load_categories returns.
C9_NamesUnique ==
    pc # "load_categories" =>
        \A i, j \in 1..Len(categories) : i # j => categories[i].name # categories[j].name

\* C10: load_categories returns one category per definition, income first
\* then expense, each in mapping order, with defaults for missing fields;
\* index i is the index of category_names and of the embedding rows.
C10_RegistryOrder ==
    LET ni == Len(income_categories)
        ne == Len(expense_categories)
        def(i) == IF i <= ni THEN income_categories[i] ELSE expense_categories[i - ni]
        group(i) == IF i <= ni THEN "income" ELSE "expense"
    IN /\ pc # "load_categories" =>
            /\ Len(categories) = ni + ne
            /\ \A i \in 1..(ni + ne) :
                  /\ categories[i].name = def(i)[1]
                  /\ categories[i].description =
                        (IF "description" \in DOMAIN def(i)[2] THEN def(i)[2].description ELSE <<>>)
                  /\ categories[i].keywords =
                        (IF "keywords" \in DOMAIN def(i)[2] THEN def(i)[2].keywords ELSE <<>>)
                  /\ categories[i].category_type =
                        (IF "category_type" \in DOMAIN def(i)[2]
                         THEN def(i)[2].category_type ELSE group(i))
       /\ self.built =>
            /\ Len(self.category_names) = ni + ne
            /\ Len(self.category_embeddings) = ni + ne
            /\ \A i \in 1..(ni + ne) :
                  /\ self.category_names[i] = def(i)[1]
                  /\ self.category_embeddings[i] = EncodeOne(self.model, categories[i].description)

\* A built categorizer over income and expense definitions that omit
\* description, keywords and category_type in turn.
C10_Witness ==
    /\ self.built
    /\ Len(income_categories) = 2
    /\ Len(expense_categories) = 1
    /\ \E i \in 1..Len(categories) : categories[i].description = <<>>
    /\ \E i \in 1..Len(categories) : categories[i].keywords = <<>>
    /\ categories[3].category_type = "income"
    /\ categories[1].category_type = "expense"

\* C11: predict_batch is idempotent.  A second call on the same object with
\* the same descriptions and thresholds returns exactly the list the first
\* call returned: the first call leaves nothing behind that changes it.
C11_Idempotent ==
    pc = "returned_again" =>
        /\ call.descriptions = prev.descriptions
        /\ call.threshold = prev.threshold
        /\ call.fuzzy_threshold = prev.fuzzy_threshold
        /\ call.results = prev.results

\* A two-text batch, one text settled by a keyword and one by the model,
\* has been run twice.
C11_Witness ==
    /\ pc = "returned_again"
    /\ Len(prev.results) = 2
    /\ Len(prev.encoded) = 1
    /\ \E i \in 1..2 : prev.results[i] \notin {UNKNOWN, None}
    /\ prev.results[1] # prev.results[2]

\* C12: each text's category is independent of the rest of the batch.  At
\* every position i the list predict_batch returned for the batch holds what
\* predict_batch returns for the one-text list of texts[i] alone.
C12_BatchIndependent ==
    Returned("predict_batch") =>
        \A i \in 1..Len(call.descriptions) :
            call.results[i] = predict_batch(self, <<call.descriptions[i]>>, call.threshold,
                                            call.fuzzy_threshold).results[1]

\* A batch of two texts that both went to the model and got different
\* categories.
C12_Witness ==
    /\ Returned("predict_batch")
    /\ Len(call.descriptions) = 2
    /\ call.encoded # <<>>
    /\ Len(call.encoded[1]) = 2
    /\ call.results[1] # call.results[2]

\* The text of a cell, the empty string for a missing one.
OrEmpty(cell) == IF cell = Null THEN <<>> ELSE cell

\* C13: categorize_transactions builds the search text of each row as
\* description + " " + note + " amount=" + str(amount), with the empty
\* string for a missing description or note; it does not raise for such a
\* row and every row of the table receives a category.
C13_SearchText ==
    Returned("categorize_transactions") =>
        /\ raised = None
        /\ Len(call.results) = Len(call.df)
        /\ Len(call.descriptions) = Len(call.df)
        /\ \A i \in 1..Len(call.df) :
              /\ call.descriptions[i] =
                     OrEmpty(call.df[i].description) \o <<" ">> \o OrEmpty(call.df[i].note)
                       \o <<" ", "a", "m", "o", "u", "n", "t", "=">>
                       \o AmountStr(call.df[i].amount)
              /\ call.results[i] # None
              /\ call.results[i] \in {UNKNOWN} \cup {self.category_names[j] :
                                                       j \in 1..Len(self.category_names)}

\* A two-row table with a row lacking its description and a row lacking
\* its note has been categorized.
C13_Witness ==
    /\ Returned("categorize_transactions")
    /\ Len(call.df) = 2
    /\ \E i \in 1..2 : call.df[i].description = Null
    /\ \E i \in 1..2 : call.df[i].note = Null
    /\ \A i \in 1..2 : call.results[i] # None

\* C20: the derived data of the categorizer (keyword_to_category,
\* all_keywords, category_names, category_embeddings) is built by the
\* constructor and no later step changes it, whichever methods are called
\* and in whatever order.
C20_DerivedDataFrozen ==
    [][self.built =>
          /\ self'.keyword_to_category = self.keyword_to_category
          /\ self'.all_keywords = self.all_keywords
          /\ self'.category_names = self.category_names
          /\ self'.category_embeddings = self.category_embeddings]_vars

\* A method that used every piece of the derived data has returned and the
\* object holds what the constructor built from the registry.
C20_Witness ==
    /\ Returned("categorize_transactions")
    /\ call.encoded # <<>>
    /\ \E i \in 1..Len(call.results) : call.results[i] \notin {UNKNOWN, None}
    /\ Len(self.all_keywords) >= 2
    /\ self = NewCategorizer(categories, model)

\* ------------------------------------------------- database properties
\* A step in which load_data runs on the table in hand.
LoadStep == pc = "db_table" /\ pc' = "db_loaded"

\* The bank name of the call matches an account, letter case aside.
AccountExists == \E a \in accounts : NoCase(a) = NoCase(db_call.bank)

StoredHashIds == {t.hash_id : t \in transactions}

\* Row i is the first row of the table with its hash_id.
FirstWithHashId(data, i) == \A j \in 1..(i - 1) : data[j].hash_id # data[i].hash_id

\* The categories rows with the name in the category column of the row.
RowsNamedAs(row) ==
    {i \in 1..Len(db_categories) :
        "category" \in DOMAIN row /\ db_categories[i].name = row.category}

UnknownRows == {i \in 1..Len(db_categories) : db_categories[i].name = UNKNOWN}

\* C14: load_data stores each new row with the id of the category that has
\* the row's category name; a row whose name is not in the categories table,
\* or that has no category, is stored with the id of the "Unknown" category,
\* never rejected and never stored without a category.
C14_CategoryIdMapped ==
    [][(LoadStep /\ AccountExists) =>
          /\ raised' = None
          /\ UnknownRows # {}
          /\ \A i \in 1..Len(db_call.data) :
                (db_call.data[i].hash_id \notin StoredHashIds /\ FirstWithHashId(db_call.data, i)) =>
                    \E t \in transactions' :
                        /\ t.hash_id = db_call.data[i].hash_id
                        /\ t.category_id # SqlNull
                        /\ \E c \in (IF RowsNamedAs(db_call.data[i]) # {}
                                     THEN RowsNamedAs(db_call.data[i]) ELSE UnknownRows) :
                              t.category_id = db_categories[c].id]_vars

\* A load has stored one row under its own category and one row, whose
\* category name is not in the table, under "Unknown".
C14_Witness ==
    /\ pc = "db_loaded"
    /\ raised = None
    /\ Len(db_call.data) = 2
    /\ \A i \in 1..2 : "category" \in DOMAIN db_call.data[i]
    /\ RowsNamedAs(db_call.data[1]) # {}
    /\ RowsNamedAs(db_call.data[2]) = {}
    /\ db_call.data[2].category # UNKNOWN
    /\ \E t \in transactions :
          /\ t.hash_id = db_call.data[1].hash_id
          /\ t.note = db_call.data[1].note
          /\ \E c \in RowsNamedAs(db_call.data[1]) : t.category_id = db_categories[c].id
    /\ \E t \in transactions :
          /\ t.hash_id = db_call.data[2].hash_id
          /\ \E c \in UnknownRows : t.category_id = db_categories[c].id

\* C15: load_data with a non-empty table and a bank name that matches no
\* account raises ValueError "Account '<bank>' not found in database." and
\* changes none of the three tables; with an empty table it returns without
\* an error and without a change, whatever the bank name.
C15_UnknownAccountOrEmptyTable ==
    [][LoadStep =>
          /\ (db_call.data # <<>> /\ ~AccountExists) =>
                /\ raised' = "ValueError: Account '" \o db_call.bank \o "' not found in database."
                /\ UNCHANGED <<transactions, db_categories, accounts>>
          /\ db_call.data = <<>> =>
                /\ raised' = None
                /\ UNCHANGED <<transactions, db_categories, accounts>>]_vars

\* A load for a bank without an account has raised while transactions of
\* another account were stored.
C15_Witness ==
    /\ pc = "db_loaded"
    /\ raised = "ValueError: Account 'seb' not found in database."
    /\ db_call.data # <<>>
    /\ transactions # {}
    /\ accounts # {}

\* The names the configuration gives to its income and expense categories.
ConfiguredNames ==
    {income_categories[i][1] : i \in 1..Len(income_categories)}
      \cup {expense_categories[i][1] : i \in 1..Len(expense_categories)}

\* C16: once initialize_database has run on an empty database the
\* categories table holds exactly the configured income and expense names
\* and "Unknown", each once, and it still does after any further
\* initialize_database and load_data calls: a category named "Unknown"
\* with a real id always exists.
C16_UnknownSeeded ==
    db_initialized =>
        /\ {db_categories[i].name : i \in 1..Len(db_categories)} = ConfiguredNames \cup {UNKNOWN}
        /\ \A i, j \in 1..Len(db_categories) :
              (db_categories[i].name = db_categories[j].name
                 \/ db_categories[i].id = db_categories[j].id) => i = j
        /\ Cardinality(UnknownRows) = 1
        /\ \A i \in UnknownRows : db_categories[i].id # SqlNull

\* Two configured categories and "Unknown" are in the table, and a load
\* has stored a row under "Unknown".
C16_Witness ==
    /\ pc = "db_loaded"
    /\ Len(db_categories) = 3
    /\ UNKNOWN \notin ConfiguredNames
    /\ \E t \in transactions : \E c \in UnknownRows : t.category_id = db_categories[c].id

\* C17: no transaction is lost over its category.  Every row handed to
\* load_data for an existing account whose hash_id is not stored yet is in
\* the transactions table afterwards, with its date, amount, description
\* and note, whether its category is a name in the table, "Unknown" or a
\* name the table does not have.
C17_NoRowLost ==
    [][(LoadStep /\ AccountExists) =>
          \A i \in 1..Len(db_call.data) :
              db_call.data[i].hash_id \notin StoredHashIds =>
                  \E t \in transactions' :
                      /\ t.hash_id = db_call.data[i].hash_id
                      /\ FirstWithHashId(db_call.data, i) =>
                            /\ t.date = db_call.data[i].date
                            /\ t.amount = AmountCents(db_call.data[i].amount)
                            /\ t.description = db_call.data[i].description
                            /\ t.note = db_call.data[i].note
                            /\ \E a \in accounts :
                                  NoCase(a) = NoCase(db_call.bank) /\ t.account_id = a]_vars

\* A row whose category name the table does not have is stored after the
\* load, next to a row with the category "Unknown".
C17_Witness ==
    /\ pc = "db_loaded"
    /\ raised = None
    /\ Len(db_call.data) = 2
    /\ \A i \in 1..2 :
          /\ "category" \in DOMAIN db_call.data[i]
          /\ RowsNamedAs(db_call.data[i]) = {} \/ db_call.data[i].category = UNKNOWN
          /\ \E t \in transactions :
                t.hash_id = db_call.data[i].hash_id /\ t.note = db_call.data[i].note
    /\ db_call.data[1].category # db_call.data[2].category

\* The rows of the table in hand, once the parser has given them a hash_id.
ParsedRows == {db_call.data[i] : i \in 1..Len(db_call.data)}

\* C18 as stated: two rows with equal date, equal amount and equal
\* description get the same hash_id.
C18_EqualFieldsSameHashId ==
    \A r1, r2 \in ParsedRows :
        (r1.date = r2.date /\ DecimalEq(r1.amount, r2.amount) /\ r1.description = r2.description)
            => r1.hash_id = r2.hash_id

\* C18, amended: two rows with equal date, equal description and amounts
\* written with the same digits (equal str(amount)) get the same hash_id,
\* whatever their notes; the hash is computed from the text of the amount,
\* so 10.50 and 10.5 give different hash_ids.
C18_SameTextSameHashId ==
    \A r1, r2 \in ParsedRows :
        (r1.date = r2.date /\ r1.amount = r2.amount /\ r1.description = r2.description)
            => r1.hash_id = r2.hash_id

\* A parsed table holds two rows that agree in date, amount text and
\* description, differ in their note and carry one hash_id.
C18_Witness ==
    /\ db_call.op = "parse"
    /\ \E r1, r2 \in ParsedRows :
          /\ r1.date = r2.date /\ r1.amount = r2.amount /\ r1.description = r2.description
          /\ r1.note # r2.note
          /\ r1.hash_id = r2.hash_id

\* C19: hash_id is the deduplication key.  After every step each hash_id is
\* in the transactions table at most once and every stored row is still
\* there unchanged; loading the same table a second time changes nothing;
\* and filter_our_present_data returns the rows of its table whose hash_id
\* is not stored, and no other row.
C19_HashIdDeduplicates ==
    [][/\ \A t1, t2 \in transactions' : t1.hash_id = t2.hash_id => t1 = t2
       /\ \A t \in transactions : t \in transactions'
       /\ (pc = "db_loaded" /\ pc' = "db_reloaded") => transactions' = transactions
       /\ (db_call.op = "parse" /\ db_call'.op = "filter") =>
             /\ \A i \in 1..Len(db_call'.data) :
                   /\ db_call'.data[i].hash_id \notin StoredHashIds
                   /\ db_call'.data[i] \in ParsedRows
             /\ \A r \in ParsedRows :
                   r.hash_id \notin StoredHashIds =>
                       \E i \in 1..Len(db_call'.data) : db_call'.data[i] = r]_vars

\* A table was loaded twice; one of its rows has the hash_id of a row that
\* was stored before with another note, and the stored row is still there.
C19_Witness ==
    /\ pc = "db_reloaded"
    /\ raised = None
    /\ \E i \in 1..Len(db_call.data) : \E t \in transactions :
          /\ t.hash_id = db_call.data[i].hash_id
          /\ t.note # db_call.data[i].note
    /\ \E i \in 1..Len(db_call.data) : \E t \in transactions :
          /\ t.hash_id = db_call.data[i].hash_id
          /\ t.note = db_call.data[i].note

====
